---- MODULE Spec2Model ----
(***************************************************************************)
(* Model of lina/utils.py: the array utilities pad_or_crop,                *)
(* map_acts_to_dm, create_circ_mask, masked_rms, get_hadamard_modes,       *)
(* create_probe_poke_modes, create_sinc_probes and get_radial_contrast.    *)
(*                                                                         *)
(* Every routine is a pure function of its arguments.  Each one gets a     *)
(* specification whose initial states enumerate its arguments and whose    *)
(* action applies the routine and stores what it returns.                  *)
(*                                                                         *)
(* A square array is a record [n |-> side, v |-> values], values being a   *)
(* function on <<row, column>> pairs, 0-based as in the source.            *)
(***************************************************************************)
EXTENDS Integers, Sequences, FiniteSets

VARIABLES pc, args, ret

vars == <<pc, args, ret>>

\* ------------------------------------------------------------- bounds

\* Largest side of an input array of pad_or_crop.
MaxSide == 3

\* Largest target size of pad_or_crop.
MaxNpix == 5

\* Largest number of nonzero entries of an input array of pad_or_crop.
MaxNonzero == 2

\* Nonzero entries of the arrays given to pad_or_crop (0 is the padding value).
Pixels == {1, 2}

\* Largest Nact of map_acts_to_dm.
MaxNact == 2

\* Longest actuators sequence given to map_acts_to_dm.
MaxActs == 4

\* Largest side of the dm_mask of get_hadamard_modes.
MaxHadSide == 3

\* Largest number of active actuators of the dm_mask of get_hadamard_modes.
MaxActive == 5

\* Largest Nact of create_probe_poke_modes.
MaxPokeNact == 3

\* Longest poke_indices list of create_probe_poke_modes.
MaxPokes == 2

\* Largest height and width of the image of create_circ_mask.
MaxDim == 3

\* Largest radius given to create_circ_mask.
MaxRadius == 3

\* Longest (flattened) image given to masked_rms.
MaxPix == 3

\* Largest absolute value of an image entry given to masked_rms.
MaxV == 2

\* Largest Npairs of create_sinc_probes.
MaxNpairs == 4

\* Largest Nact of create_sinc_probes.
MaxSincNact == 2

\* Largest probe_radius of create_sinc_probes.
MaxProbeRadius == 2

\* Largest probe_amplitude of create_sinc_probes.
MaxAmp == 2

\* Largest number of rows and of columns of the image of get_radial_contrast.
MaxRows == 2
MaxCols == 3

\* Largest nbins of get_radial_contrast.
MaxBins == 4

\* ------------------------------------------------------------ helpers

Idx(n) == (0 .. n - 1) \X (0 .. n - 1)

\* The n x n arrays that hold a value of vals at no more than k positions and
\* 0 at every other position.
SparseArrays(n, vals, k) ==
  UNION {{[n |-> n, v |-> [p \in Idx(n) |-> IF p \in S THEN f[p] ELSE 0]] :
            f \in [S -> vals]} :
         S \in {T \in SUBSET Idx(n) : Cardinality(T) <= k}}

\* The n x n boolean arrays with at least lo and at most hi True entries.
MasksWithSum(n, lo, hi) ==
  {[n |-> n, v |-> [p \in Idx(n) |-> p \in S]] :
     S \in {T \in SUBSET Idx(n) : lo <= Cardinality(T) /\ Cardinality(T) <= hi}}

\* The n x n boolean arrays.
BoolArrays(n) == {[n |-> n, v |-> f] : f \in [Idx(n) -> BOOLEAN]}

Min(a, b) == IF a <= b THEN a ELSE b

\* A flat array of length len is a function on 0 .. len - 1.
Vec(len, vals) == [0 .. len - 1 -> vals]

\* arr.flatten(): row-major order, entry (r, c) at flat index r * n + c
flatten(arr) == [i \in 0 .. arr.n * arr.n - 1 |-> arr.v[<<i \div arr.n, i % arr.n>>]]

\* Mutant: column-major (Fortran) order, entry (r, c) at flat index c * n + r.
flatten_colmajor(arr) ==
  [i \in 0 .. arr.n * arr.n - 1 |-> arr.v[<<i % arr.n, i \div arr.n>>]]

RECURSIVE WhereFrom(_, _, _)
WhereFrom(flat, i, len) ==
  IF i >= len THEN <<>>
  ELSE (IF flat[i] THEN <<i>> ELSE <<>>) \o WhereFrom(flat, i + 1, len)

\* where(flat)[0]: the indices of the nonzero entries, ascending.  The result
\* is a sequence: its j-th element (0-based) is where(flat, len)[j + 1].
where(flat, len) == WhereFrom(flat, 0, len)

\* command.ravel(): the same row-major order, as a view of the array
unravel(flat, n) == [n |-> n, v |-> [p \in Idx(n) |-> flat[p[1] * n + p[2]]]]

\* ------------------------------------------------------------ pad_or_crop

\* arr_in[x1:x2, x1:x2].copy() with x2 = x1 + npix
CropWindow(arr_in, x1, npix) ==
  [n |-> npix,
   v |-> [p \in Idx(npix) |-> arr_in.v[<<p[1] + x1, p[2] + x1>>]]]

\* zeros((npix, npix)); arr_out[x1:x2, x1:x2] = arr_in with x2 = x1 + n_arr_in
PadWindow(arr_in, x1, npix) ==
  [n |-> npix,
   v |-> [p \in Idx(npix) |->
            IF /\ x1 <= p[1] /\ p[1] < x1 + arr_in.n
               /\ x1 <= p[2] /\ p[2] < x1 + arr_in.n
            THEN arr_in.v[<<p[1] - x1, p[2] - x1>>]
            ELSE 0]]

\* Mutant: the pad offset taken as half the size difference.
pad_or_crop_half_diff_pad(arr_in, npix) ==
  LET n_arr_in == arr_in.n IN
  IF n_arr_in = npix THEN arr_in
  ELSE IF npix < n_arr_in
       THEN CropWindow(arr_in, (n_arr_in \div 2) - (npix \div 2), npix)
       ELSE PadWindow(arr_in, (npix - n_arr_in) \div 2, npix)

\* Mutant: the crop offset taken as half the size difference.
pad_or_crop_half_diff_crop(arr_in, npix) ==
  LET n_arr_in == arr_in.n IN
  IF n_arr_in = npix THEN arr_in
  ELSE IF npix < n_arr_in
       THEN CropWindow(arr_in, (n_arr_in - npix) \div 2, npix)
       ELSE PadWindow(arr_in, (npix \div 2) - (n_arr_in \div 2), npix)

pad_or_crop(arr_in, npix) ==
  LET n_arr_in == arr_in.n IN
  IF n_arr_in = npix THEN arr_in
  ELSE IF npix < n_arr_in
       THEN CropWindow(arr_in, (n_arr_in \div 2) - (npix \div 2), npix)
       ELSE PadWindow(arr_in, (npix \div 2) - (n_arr_in \div 2), npix)

PadInputs(maxSide, maxNpix, maxNonzero) ==
  {[arr_in |-> a, npix |-> k] :
     a \in UNION {SparseArrays(m, Pixels, maxNonzero) : m \in 1 .. maxSide},
     k \in 0 .. maxNpix}

InitPad ==
  /\ pc = "start"
  /\ args \in PadInputs(MaxSide, MaxNpix, MaxNonzero)
  /\ ret = <<>>

\* result = pad_or_crop(arr, n)
Resize ==
  /\ pc = "start"
  /\ pc' = "resized"
  /\ ret' = [out |-> pad_or_crop(args.arr_in, args.npix)]
  /\ UNCHANGED args

\* pad_or_crop(result, original_n)
ResizeBack ==
  /\ pc = "resized"
  /\ pc' = "restored"
  /\ ret' = [out |-> ret.out, back |-> pad_or_crop(ret.out, args.arr_in.n)]
  /\ UNCHANGED args

NextPad == Resize \/ ResizeBack

SpecPad == InitPad /\ [][NextPad]_vars

\* C1: for a square array of side m and a target size n >= 1, pad_or_crop
\* returns an n x n array: the input itself when n = m; when n < m the
\* n x n window of the input whose top-left corner is (m/2 - n/2, m/2 - n/2)
\* (floor divisions); when n > m zero everywhere except the m x m window
\* whose top-left corner is (n/2 - m/2, n/2 - m/2), which holds the input.
C1_PadOrCropWindow ==
  (pc # "start" /\ args.npix >= 1) =>
    LET a == args.arr_in
        m == a.n
        n == args.npix
        r == ret.out
        oc == (m \div 2) - (n \div 2)
        op == (n \div 2) - (m \div 2)
    IN /\ r.n = n
       /\ DOMAIN r.v = Idx(n)
       /\ (n = m) => r = a
       /\ (n < m) => \A i, j \in 0 .. n - 1 : r.v[<<i, j>>] = a.v[<<i + oc, j + oc>>]
       /\ (n > m) =>
            /\ \A i, j \in 0 .. m - 1 : r.v[<<i + op, j + op>>] = a.v[<<i, j>>]
            /\ \A i, j \in 0 .. n - 1 :
                 (i < op \/ i >= op + m \/ j < op \/ j >= op + m) => r.v[<<i, j>>] = 0

\* C1 witness: a 3 x 3 array with two nonzero corners has been padded to
\* 4 x 4 (odd size difference, offset 4/2 - 3/2 = 1).
C1_Witness ==
  /\ pc = "resized"
  /\ args.arr_in.n = 3
  /\ args.npix = 4
  /\ args.arr_in.v[<<0, 0>>] = 1
  /\ args.arr_in.v[<<2, 2>>] = 2
  /\ ret.out.v[<<0, 0>>] = 0
  /\ ret.out.v[<<1, 1>>] = 1
  /\ ret.out.v[<<3, 3>>] = 2

\* C2: the round trip pad_or_crop(pad_or_crop(arr, n), m) gives back arr
\* exactly when n >= m; when n < m it equals arr on the central n x n window
\* at offset m/2 - n/2 (floor divisions) on both axes and is zero outside it.
C2_RoundTrip ==
  (pc = "restored") =>
    LET a == args.arr_in
        m == a.n
        n == args.npix
        b == ret.back
        o == (m \div 2) - (n \div 2)
    IN /\ b.n = m
       /\ (n >= m) => b = a
       /\ (n < m) =>
            \A i, j \in 0 .. m - 1 :
              b.v[<<i, j>>] =
                IF o <= i /\ i < o + n /\ o <= j /\ j < o + n
                THEN a.v[<<i, j>>] ELSE 0

\* C2 witness: a round trip through a smaller array with an odd size
\* difference that kept the centre and zeroed a nonzero border entry.
C2_Witness ==
  /\ pc = "restored"
  /\ args.arr_in.n = 3
  /\ args.npix = 2
  /\ args.arr_in.v[<<0, 0>>] = 1
  /\ args.arr_in.v[<<2, 2>>] = 2
  /\ ret.back.v[<<0, 0>>] = 1
  /\ ret.back.v[<<2, 2>>] = 0

\* ------------------------------------------------------------ map_acts_to_dm

\* flat[inds] = values: the values are broadcast to the shape of the index
\* array, which an equal length and a length of 1 allow; any other length is
\* the library's shape-mismatch error.
CanBroadcast(nvalues, ninds) == nvalues = ninds \/ nvalues = 1

IndexAssign(flat, len, inds, values, nvalues) ==
  [i \in 0 .. len - 1 |->
     IF \E j \in 1 .. Len(inds) : inds[j] = i
     THEN LET j == CHOOSE j \in 1 .. Len(inds) : inds[j] = i
          IN IF nvalues = Len(inds) THEN values[j - 1] ELSE values[0]
     ELSE flat[i]]

\* Mutant: the mask flattened in column-major order.
map_acts_to_dm_colmajor(actuators, dm_mask, Nact) ==
  LET inds == where(flatten_colmajor(dm_mask), dm_mask.n * dm_mask.n)
      command == [i \in 0 .. Nact * Nact - 1 |-> 0]
      nacts == Cardinality(DOMAIN actuators)
  IN IF CanBroadcast(nacts, Len(inds))
     THEN [error |-> FALSE,
           command |-> unravel(IndexAssign(command, Nact * Nact, inds, actuators, nacts), Nact)]
     ELSE [error |-> TRUE]

map_acts_to_dm(actuators, dm_mask, Nact) ==
  LET inds == where(flatten(dm_mask), dm_mask.n * dm_mask.n)
      command == [i \in 0 .. Nact * Nact - 1 |-> 0]
      nacts == Cardinality(DOMAIN actuators)
  IN IF CanBroadcast(nacts, Len(inds))
     THEN [error |-> FALSE,
           command |-> unravel(IndexAssign(command, Nact * Nact, inds, actuators, nacts), Nact)]
     ELSE [error |-> TRUE]

\* Values of the actuators given to map_acts_to_dm.
ActValues == {1, 2}

MapInputs(maxNact, maxActs) ==
  {[actuators |-> a, dm_mask |-> m, Nact |-> m.n] :
     a \in UNION {Vec(len, ActValues) : len \in 0 .. maxActs},
     m \in UNION {BoolArrays(n) : n \in 1 .. maxNact}}

InitMap ==
  /\ pc = "start"
  /\ args \in MapInputs(MaxNact, MaxActs)
  /\ ret = <<>>

MapActsToDm ==
  /\ pc = "start"
  /\ pc' = "done"
  /\ ret' = map_acts_to_dm(args.actuators, args.dm_mask, args.Nact)
  /\ UNCHANGED args

NextMap == MapActsToDm

SpecMap == InitMap /\ [][NextMap]_vars

\* Number of True entries of a mask.
MaskSum(m) == Cardinality({p \in Idx(m.n) : m.v[p]})

\* Number of True entries of a mask before position p in row-major order.
RankOf(m, p) ==
  Cardinality({q \in Idx(m.n) :
                 m.v[q] /\ (q[1] < p[1] \/ (q[1] = p[1] /\ q[2] < p[2]))})

\* C3: whenever the length of actuators differs from the number of True
\* entries of the mask (lengths 1 and 0 included), map_acts_to_dm fails with
\* an error and returns no command array.
C3_MismatchFails ==
  (pc = "done" /\ Cardinality(DOMAIN args.actuators) # MaskSum(args.dm_mask))
    => ret.error

\* C4: when the length of actuators is the number k of True entries of the
\* mask, map_acts_to_dm returns an Nact x Nact array in which the j-th True
\* position of the mask in row-major order holds actuators[j] and every
\* position where the mask is False holds 0.
C4_ScatterRowMajor ==
  (pc = "done" /\ Cardinality(DOMAIN args.actuators) = MaskSum(args.dm_mask)) =>
    /\ ~ret.error
    /\ ret.command.n = args.Nact
    /\ DOMAIN ret.command.v = Idx(args.Nact)
    /\ \A p \in Idx(args.Nact) :
         ret.command.v[p] =
           IF args.dm_mask.v[p]
           THEN args.actuators[RankOf(args.dm_mask, p)]
           ELSE 0

\* C4 witness: three distinct-in-order values scattered into a 2 x 2 grid
\* whose mask skips position (0, 1).
C4_Witness ==
  /\ pc = "done"
  /\ args.Nact = 2
  /\ ~args.dm_mask.v[<<0, 1>>]
  /\ MaskSum(args.dm_mask) = 3
  /\ Cardinality(DOMAIN args.actuators) = 3
  /\ args.actuators[0] = 1 /\ args.actuators[1] = 2 /\ args.actuators[2] = 1
  /\ ~ret.error
  /\ ret.command.v[<<1, 0>>] = 2

\* ------------------------------------------------------------ get_hadamard_modes

\* 2**int(np.ceil(np.log2(Nacts))): the least power of two that is >= Nacts
RECURSIVE NextPow2From(_, _)
NextPow2From(p, Nacts) == IF p >= Nacts THEN p ELSE NextPow2From(2 * p, Nacts)

\* hadamard(n), n a power of two: Sylvester's construction, H(1) = [[1]] and
\* H(2n) = [[H(n), H(n)], [H(n), -H(n)]]; entry (i, j), 0-based.
RECURSIVE hadamard(_, _, _)
hadamard(n, i, j) ==
  IF n = 1 THEN 1
  ELSE LET h == n \div 2
       IN (IF i >= h /\ j >= h THEN -1 ELSE 1) * hadamard(h, i % h, j % h)

\* mode = zeros(len); mode[inds] = hmode[:Nacts]
ScatterMode(len, inds, np2, i) ==
  [q \in 0 .. len - 1 |->
     IF \E j \in 1 .. Len(inds) : inds[j] = q
     THEN hadamard(np2, i, (CHOOSE j \in 1 .. Len(inds) : inds[j] = q) - 1)
     ELSE 0]

\* Mutant: the Hadamard order taken as the least power of two strictly
\* greater than the actuator count.
get_hadamard_modes_next_order(dm_mask) ==
  LET inds == where(flatten(dm_mask), dm_mask.n * dm_mask.n)
      Nacts == Len(inds)
      np2 == NextPow2From(1, Nacts + 1)
  IN [i \in 0 .. np2 - 1 |-> ScatterMode(dm_mask.n * dm_mask.n, inds, np2, i)]

get_hadamard_modes(dm_mask) ==
  LET inds == where(flatten(dm_mask), dm_mask.n * dm_mask.n)
      Nacts == Len(inds)
      np2 == NextPow2From(1, Nacts)
  IN [i \in 0 .. np2 - 1 |-> ScatterMode(dm_mask.n * dm_mask.n, inds, np2, i)]

HadamardInputs(maxSide, maxActive) ==
  {[dm_mask |-> m] :
     m \in UNION {MasksWithSum(n, 1, maxActive) : n \in 1 .. maxSide}}

InitHadamard ==
  /\ pc = "start"
  /\ args \in HadamardInputs(MaxHadSide, MaxActive)
  /\ ret = <<>>

GetHadamardModes ==
  /\ pc = "start"
  /\ pc' = "done"
  /\ ret' = get_hadamard_modes(args.dm_mask)
  /\ UNCHANGED args

NextHadamard == GetHadamardModes

SpecHadamard == InitHadamard /\ [][NextHadamard]_vars

\* Number of positions at which the binary expansions of i and j both have a 1.
RECURSIVE CommonBits(_, _)
CommonBits(i, j) ==
  IF i = 0 \/ j = 0 THEN 0
  ELSE (IF i % 2 = 1 /\ j % 2 = 1 THEN 1 ELSE 0) + CommonBits(i \div 2, j \div 2)

\* Entry (i, j) of the Hadamard matrix in natural order: (-1)^popcount(i & j).
HadamardEntry(i, j) == IF CommonBits(i, j) % 2 = 0 THEN 1 ELSE -1

\* C5: for a square mask with N >= 1 active actuators, get_hadamard_modes
\* returns exactly P mode vectors, P the least power of two >= N (so N when N
\* is a power of two), each of length side * side; mode i holds entry (i, j)
\* of the Hadamard matrix of order P, which is +1 or -1, at the j-th active
\* position of the row-major flattened mask and 0 at every inactive position.
C5_HadamardModes ==
  (pc = "done") =>
    LET m == args.dm_mask
        N == MaskSum(m)
        P == CHOOSE k \in 1 .. 2 * N :
               /\ k >= N /\ k < 2 * N
               /\ \E e \in 0 .. N : k = 2 ^ e
    IN /\ DOMAIN ret = 0 .. P - 1
       /\ \A i \in 0 .. P - 1 :
            /\ DOMAIN ret[i] = 0 .. m.n * m.n - 1
            /\ \A p \in Idx(m.n) :
                 LET val == ret[i][p[1] * m.n + p[2]]
                 IN IF m.v[p]
                    THEN val \in {1, -1} /\ val = HadamardEntry(i, RankOf(m, p))
                    ELSE val = 0

\* C5 witness: a mask of five active actuators (not a power of two) gave
\* eight modes, and a mode holds -1 at an active position.
C5_Witness ==
  /\ pc = "done"
  /\ MaskSum(args.dm_mask) = 5
  /\ ~args.dm_mask.v[<<0, 0>>]
  /\ DOMAIN ret = 0 .. 7
  /\ \E q \in 0 .. 8 : ret[7][q] = -1

\* ------------------------------------------------------------ create_probe_poke_modes

\* Mutant: the pair read as (row, column).
create_probe_poke_modes_swapped(Nact, poke_indices) ==
  LET Nprobes == Len(poke_indices)
  IN [i \in 0 .. Nprobes - 1 |->
        [n |-> Nact,
         v |-> [p \in Idx(Nact) |->
                  IF p[1] = poke_indices[i + 1][1] /\ p[2] = poke_indices[i + 1][2]
                  THEN 1 ELSE 0]]]

\* probe_modes[i, poke_indices[i][1], poke_indices[i][0]] = 1 on zeros;
\* poke_indices is a sequence, its i-th pair (0-based) is poke_indices[i + 1],
\* and the pair <<x, y>> holds x at [1] and y at [2].
create_probe_poke_modes(Nact, poke_indices) ==
  LET Nprobes == Len(poke_indices)
  IN [i \in 0 .. Nprobes - 1 |->
        [n |-> Nact,
         v |-> [p \in Idx(Nact) |->
                  IF p[1] = poke_indices[i + 1][2] /\ p[2] = poke_indices[i + 1][1]
                  THEN 1 ELSE 0]]]

RECURSIVE SeqsUpTo(_, _)
SeqsUpTo(S, len) ==
  IF len = 0 THEN {<<>>}
  ELSE LET shorter == SeqsUpTo(S, len - 1)
       IN shorter \cup {Append(q, x) : q \in {r \in shorter : Len(r) = len - 1}, x \in S}

PokeInputs(maxNact, maxPokes) ==
  UNION {{[Nact |-> n, poke_indices |-> q] : q \in SeqsUpTo(Idx(n), maxPokes)} :
         n \in 1 .. maxNact}

InitPoke ==
  /\ pc = "start"
  /\ args \in PokeInputs(MaxPokeNact, MaxPokes)
  /\ ret = <<>>

CreateProbePokeModes ==
  /\ pc = "start"
  /\ pc' = "done"
  /\ ret' = create_probe_poke_modes(args.Nact, args.poke_indices)
  /\ UNCHANGED args

NextPoke == CreateProbePokeModes

SpecPoke == InitPoke /\ [][NextPoke]_vars

\* C6: create_probe_poke_modes returns exactly len(poke_indices) arrays of
\* shape Nact x Nact, and the i-th array holds 1 at row y_i, column x_i and 0
\* at every other position (duplicate pairs allowed).
C6_PokeModes ==
  (pc = "done") =>
    /\ DOMAIN ret = 0 .. Len(args.poke_indices) - 1
    /\ \A i \in 0 .. Len(args.poke_indices) - 1 :
         LET x == args.poke_indices[i + 1][1]
             y == args.poke_indices[i + 1][2]
         IN /\ ret[i].n = args.Nact
            /\ DOMAIN ret[i].v = Idx(args.Nact)
            /\ \A r, c \in 0 .. args.Nact - 1 :
                 ret[i].v[<<r, c>>] = (IF r = y /\ c = x THEN 1 ELSE 0)

\* C6 witness: two pokes on a 3 x 3 grid, the first at (x, y) = (1, 2): the
\* first array holds 1 at row 2, column 1 and 0 at row 1, column 2.
C6_Witness ==
  /\ pc = "done"
  /\ args.Nact = 3
  /\ Len(args.poke_indices) = 2
  /\ args.poke_indices[1] = <<1, 2>>
  /\ ret[0].v[<<2, 1>>] = 1
  /\ ret[0].v[<<1, 2>>] = 0

\* ------------------------------------------------------------ create_circ_mask

\* An optional argument is <<>> when it is None and <<value>> otherwise (the
\* center, itself a pair, is <<>> or <<cx, cy>>).

\* Mutant: the distance taken without the half-pixel offset.
create_circ_mask_no_offset(h, w, center_in, radius_in) ==
  LET center == IF center_in = <<>> THEN <<w \div 2, h \div 2>> ELSE center_in
      radius == IF radius_in = <<>>
                THEN Min(Min(center[1], center[2]), Min(w - center[1], h - center[2]))
                ELSE radius_in[1]
  IN [p \in (0 .. h - 1) \X (0 .. w - 1) |->
        LET Y == p[1]
            X == p[2]
        IN /\ radius >= 0
           /\ (X - center[1]) ^ 2 + (Y - center[2]) ^ 2 <= radius ^ 2]

\* dist_from_center <= radius with dist_from_center the square root of
\* (X - cx + 1/2)^2 + (Y - cy + 1/2)^2: a square root is never negative, so
\* the comparison is false for a negative radius and otherwise compares the
\* squares; both sides are scaled by 4 to stay in the integers.
create_circ_mask(h, w, center_in, radius_in) ==
  LET center == IF center_in = <<>> THEN <<w \div 2, h \div 2>> ELSE center_in
      radius == IF radius_in = <<>>
                THEN Min(Min(center[1], center[2]), Min(w - center[1], h - center[2]))
                ELSE radius_in[1]
  IN [p \in (0 .. h - 1) \X (0 .. w - 1) |->
        LET Y == p[1]
            X == p[2]
        IN /\ radius >= 0
           /\ (2 * X - 2 * center[1] + 1) ^ 2 + (2 * Y - 2 * center[2] + 1) ^ 2
                <= 4 * radius ^ 2]

CircInputs(maxDim, maxRadius) ==
  {[h |-> h, w |-> w, center |-> c, radius1 |-> r1, radius2 |-> r2] :
     h \in 1 .. maxDim, w \in 1 .. maxDim,
     c \in {<<>>} \cup ((0 .. maxDim) \X (0 .. maxDim)),
     r1 \in {<<>>} \cup {<<r>> : r \in 0 .. maxRadius},
     r2 \in {<<>>} \cup {<<r>> : r \in 0 .. maxRadius}}

InitCirc ==
  /\ pc = "start"
  /\ args \in CircInputs(MaxDim, MaxRadius)
  /\ ret = <<>>

\* create_circ_mask(h, w, center, radius1)
CreateCircMask ==
  /\ pc = "start"
  /\ pc' = "first"
  /\ ret' = [first |-> create_circ_mask(args.h, args.w, args.center, args.radius1)]
  /\ UNCHANGED args

\* create_circ_mask(h, w, center, radius2), same image size and center
CreateCircMaskAgain ==
  /\ pc = "first"
  /\ pc' = "second"
  /\ ret' = [first |-> ret.first,
             second |-> create_circ_mask(args.h, args.w, args.center, args.radius2)]
  /\ UNCHANGED args

NextCirc == CreateCircMask \/ CreateCircMaskAgain

SpecCirc == InitCirc /\ [][NextCirc]_vars

\* (X - cx + 1/2)^2 + (Y - cy + 1/2)^2 <= r^2, multiplied out and doubled:
\* 2 * ((X - cx)(X - cx + 1) + (Y - cy)(Y - cy + 1)) + 1 <= 2 r^2.
WithinRadius(X, Y, cx, cy, r) ==
  2 * ((X - cx) * (X - cx + 1) + (Y - cy) * (Y - cy + 1)) + 1 <= 2 * r * r

\* C7: for a fixed image size and center and radii r1 <= r2, the mask of
\* radius r1 is a subset of the mask of radius r2, so the count of True
\* pixels does not decrease with the radius; a pixel (X, Y) is True exactly
\* when (X - cx + 1/2)^2 + (Y - cy + 1/2)^2 <= radius^2.
C7_CircMaskMonotone ==
  (pc = "second" /\ args.radius1 # <<>> /\ args.radius2 # <<>>) =>
    LET pix == (0 .. args.h - 1) \X (0 .. args.w - 1)
        cx == IF args.center = <<>> THEN args.w \div 2 ELSE args.center[1]
        cy == IF args.center = <<>> THEN args.h \div 2 ELSE args.center[2]
        r1 == args.radius1[1]
        r2 == args.radius2[1]
    IN /\ DOMAIN ret.first = pix /\ DOMAIN ret.second = pix
       /\ \A p \in pix :
            /\ ret.first[p] <=> WithinRadius(p[2], p[1], cx, cy, r1)
            /\ ret.second[p] <=> WithinRadius(p[2], p[1], cx, cy, r2)
       /\ (r1 <= r2) =>
            /\ \A p \in pix : ret.first[p] => ret.second[p]
            /\ Cardinality({p \in pix : ret.first[p]})
                 <= Cardinality({p \in pix : ret.second[p]})

\* C7 witness: on a 3 x 3 image with the default center (1, 1), radius 1
\* selects the upper-left 2 x 2 pixels only, and radius 2 adds pixel row 0,
\* column 2 but not the far corner.
C7_Witness ==
  /\ pc = "second"
  /\ args.h = 3 /\ args.w = 3 /\ args.center = <<>>
  /\ args.radius1 = <<1>> /\ args.radius2 = <<2>>
  /\ ret.first[<<0, 0>>] /\ ~ret.first[<<0, 2>>]
  /\ ret.second[<<0, 2>>] /\ ~ret.second[<<2, 2>>]

\* ------------------------------------------------------------ masked_rms

\* sum of image[mask]**2 over the flat indices i .. len - 1
RECURSIVE SumSquaresFrom(_, _, _, _)
SumSquaresFrom(image, mask, i, len) ==
  IF i >= len THEN 0
  ELSE (IF mask[i] THEN image[i] * image[i] ELSE 0) + SumSquaresFrom(image, mask, i + 1, len)

\* np.sqrt(total / count): the root when it is an integer, and otherwise the
\* fraction it is the root of.
SqrtOfRatio(total, count) ==
  IF \E r \in 0 .. total : r * r * count = total
  THEN [nan |-> FALSE, exact |-> TRUE,
        value |-> CHOOSE r \in 0 .. total : r * r * count = total]
  ELSE [nan |-> FALSE, exact |-> FALSE, square |-> <<total, count>>]

\* Mutant: the mean of the squares returned without taking the root.
masked_rms_no_sqrt(image, mask) ==
  LET len == Cardinality(DOMAIN image)
      count == Cardinality({i \in DOMAIN mask : mask[i]})
      total == SumSquaresFrom(image, mask, 0, len)
  IN IF count = 0 THEN [nan |-> TRUE]
     ELSE IF total % count = 0
          THEN [nan |-> FALSE, exact |-> TRUE, value |-> total \div count]
          ELSE [nan |-> FALSE, exact |-> FALSE, square |-> <<total, count>>]

\* np.sqrt(np.mean(image[mask]**2)); the mean of an empty selection is nan.
\* The boolean index selects the entries in flattened order, so the image and
\* the mask are modelled flattened.
masked_rms(image, mask) ==
  LET len == Cardinality(DOMAIN image)
      count == Cardinality({i \in DOMAIN mask : mask[i]})
      total == SumSquaresFrom(image, mask, 0, len)
  IN IF count = 0 THEN [nan |-> TRUE]
     ELSE SqrtOfRatio(total, count)

RmsInputs(maxPix, maxV) ==
  UNION {{[image |-> im, mask |-> m] :
            im \in Vec(len, (0 - maxV) .. maxV), m \in Vec(len, BOOLEAN)} :
         len \in 1 .. maxPix}

InitRms ==
  /\ pc = "start"
  /\ args \in RmsInputs(MaxPix, MaxV)
  /\ ret = <<>>

MaskedRms ==
  /\ pc = "start"
  /\ pc' = "done"
  /\ ret' = masked_rms(args.image, args.mask)
  /\ UNCHANGED args

NextRms == MaskedRms

SpecRms == InitRms /\ [][NextRms]_vars

\* C8: for an array whose entries all equal the same integer v (positive,
\* zero or negative) and a mask with at least one True entry, masked_rms
\* returns |v|.
C8_ConstantRms ==
  (pc = "done") =>
    \A v \in (0 - MaxV) .. MaxV :
      ((\A i \in DOMAIN args.image : args.image[i] = v)
         /\ (\E i \in DOMAIN args.mask : args.mask[i]))
      => /\ ~ret.nan
         /\ ret.exact
         /\ ret.value = (IF v < 0 THEN 0 - v ELSE v)

\* C8 witness: a constant image of three entries -2 with one entry masked
\* out gave 2.
C8_Witness ==
  /\ pc = "done"
  /\ DOMAIN args.image = 0 .. 2
  /\ \A i \in 0 .. 2 : args.image[i] = 0 - 2
  /\ args.mask[0] /\ ~args.mask[1] /\ args.mask[2]
  /\ ~ret.nan /\ ret.exact /\ ret.value = 2

\* ------------------------------------------------------------ create_sinc_probes

\* A probe phase is a rational multiple of pi, <<num, den>> with den > 0.
RatLess(a, b) == a[1] * b[2] < b[1] * a[2]

RatLeq(a, b) == a[1] * b[2] <= b[1] * a[2]

RatEq(a, b) == a[1] * b[2] = b[1] * a[2]

\* np.linspace(0, stop, num, endpoint): num samples i * step, the step being
\* stop / (num - 1) with the endpoint and stop / num without it; with the
\* endpoint the last of several samples is stop itself.  0-based sample i
\* is linspace(...)[i + 1].
linspace(stop, num, endpoint) ==
  LET div == IF endpoint THEN num - 1 ELSE num
  IN [i \in 1 .. num |->
        IF div = 0 THEN <<0, 1>>
        ELSE IF endpoint /\ num > 1 /\ i = num THEN stop
        ELSE <<(i - 1) * stop[1], stop[2] * div>>]

\* The probe commands are products of sinc and cosine terms of real numbers;
\* a probe is kept as the parameters that determine it: the arguments and the
\* sinc frequencies fX, fY and carrier (the axis of the cosine, its
\* frequency omega given doubled) that the branches select.
create_sinc_probe(Nacts, amp, probe_radius, probe_phase, offset, bad_axis) ==
  LET base == [Nacts |-> Nacts, amp |-> amp, probe_phase |-> probe_phase,
               offset |-> offset, bad_axis |-> bad_axis]
      cmd == IF bad_axis = "x"
             THEN [fX |-> 2 * probe_radius, fY |-> probe_radius,
                   carrier |-> "Y", omega2 |-> probe_radius]
             ELSE [fX |-> probe_radius, fY |-> 2 * probe_radius,
                   carrier |-> "X", omega2 |-> probe_radius]
  IN IF probe_phase[1] = 0
     THEN [args |-> base,
           commands |-> [fX |-> 2 * probe_radius, fY |-> 2 * probe_radius,
                         carrier |-> "none", omega2 |-> 0]]
     ELSE [args |-> base, commands |-> cmd]

\* Mutant: the phases sampled without the endpoint.
create_sinc_probes_no_endpoint(Npairs, Nact, dm_mask, probe_amplitude, probe_radius, probe_offset) ==
  LET probe_phases == linspace(<<Npairs - 1, Npairs>>, Npairs, FALSE)
  IN [i \in 0 .. Npairs - 1 |->
        [probe |-> create_sinc_probe(Nact, probe_amplitude, probe_radius,
                                     probe_phases[i + 1], probe_offset,
                                     IF i % 2 = 0 THEN "x" ELSE "y"),
         times |-> dm_mask]]

\* probe_phases = np.linspace(0, np.pi*(Npairs-1)/Npairs, Npairs); every
\* element of the result is a probe multiplied by dm_mask.
create_sinc_probes(Npairs, Nact, dm_mask, probe_amplitude, probe_radius, probe_offset) ==
  LET probe_phases == linspace(<<Npairs - 1, Npairs>>, Npairs, TRUE)
  IN [i \in 0 .. Npairs - 1 |->
        [probe |-> create_sinc_probe(Nact, probe_amplitude, probe_radius,
                                     probe_phases[i + 1], probe_offset,
                                     IF i % 2 = 0 THEN "x" ELSE "y"),
         times |-> dm_mask]]

SincInputs(maxNpairs, maxNact, maxAmp, maxRadius) ==
  {[Npairs |-> np, Nact |-> m.n, dm_mask |-> m, probe_amplitude |-> a,
    probe_radius |-> r, probe_offset |-> <<0, 0>>] :
     np \in 1 .. maxNpairs,
     m \in UNION {BoolArrays(n) : n \in 1 .. maxNact},
     a \in 1 .. maxAmp,
     r \in 1 .. maxRadius}

InitSinc ==
  /\ pc = "start"
  /\ args \in SincInputs(MaxNpairs, MaxSincNact, MaxAmp, MaxProbeRadius)
  /\ ret = <<>>

CreateSincProbes ==
  /\ pc = "start"
  /\ pc' = "done"
  /\ ret' = create_sinc_probes(args.Npairs, args.Nact, args.dm_mask,
                               args.probe_amplitude, args.probe_radius, args.probe_offset)
  /\ UNCHANGED args

NextSinc == CreateSincProbes

SpecSinc == InitSinc /\ [][NextSinc]_vars

\* C9 as stated: create_sinc_probes returns exactly Npairs probes, probe i
\* generated with bad axis 'x' when i is even and 'y' when i is odd, with
\* phases linearly spaced over the half-open interval
\* [0, pi*(Npairs-1)/Npairs): every phase used is strictly less than
\* pi*(Npairs-1)/Npairs.
C9_PhasesBelowStop ==
  (pc = "done") =>
    /\ DOMAIN ret = 0 .. args.Npairs - 1
    /\ \A i \in 0 .. args.Npairs - 1 :
         /\ ret[i].probe.args.bad_axis = (IF i % 2 = 0 THEN "x" ELSE "y")
         /\ RatLeq(<<0, 1>>, ret[i].probe.args.probe_phase)
         /\ RatLess(ret[i].probe.args.probe_phase, <<args.Npairs - 1, args.Npairs>>)

\* C9 as amended: create_sinc_probes returns exactly Npairs probes, probe i
\* generated with bad axis 'x' when i is even and 'y' when i is odd, with
\* phases linearly spaced over the closed interval
\* [0, pi*(Npairs-1)/Npairs], endpoint included: the phase of probe i is
\* i*pi/Npairs, so the first is 0 and the last is pi*(Npairs-1)/Npairs.
C9_PhasesClosedInterval ==
  (pc = "done") =>
    /\ DOMAIN ret = 0 .. args.Npairs - 1
    /\ \A i \in 0 .. args.Npairs - 1 :
         /\ ret[i].probe.args.bad_axis = (IF i % 2 = 0 THEN "x" ELSE "y")
         /\ RatEq(ret[i].probe.args.probe_phase, <<i, args.Npairs>>)
         /\ RatLeq(ret[i].probe.args.probe_phase, <<args.Npairs - 1, args.Npairs>>)
    /\ RatEq(ret[0].probe.args.probe_phase, <<0, 1>>)
    /\ RatEq(ret[args.Npairs - 1].probe.args.probe_phase,
             <<args.Npairs - 1, args.Npairs>>)

\* C9 witness: four probes were generated, the last one with bad axis 'y'
\* and phase 3*pi/4, the end of the interval.
C9_Witness ==
  /\ pc = "done"
  /\ args.Npairs = 4
  /\ ret[3].probe.args.bad_axis = "y"
  /\ RatEq(ret[3].probe.args.probe_phase, <<3, 4>>)
  /\ ret[2].probe.args.bad_axis = "x"
  /\ RatEq(ret[2].probe.args.probe_phase, <<1, 2>>)

\* ------------------------------------------------------------ get_radial_contrast

\* An image is a record [h, w, v], v a function on <<row, column>> pairs.
Images(h, w, vals) ==
  {[h |-> h, w |-> w, v |-> f] : f \in [(0 .. h - 1) \X (0 .. w - 1) -> vals]}

\* The squared radial separation of the pixels from the center, times 4:
\* the default center ((shape[0]-1)/2, (shape[1]-1)/2) is a half-integer, so
\* the center is kept doubled; scaleyx is (1.0, 1.0).
get_radial_dist(shape, cenyx) ==
  LET cen2 == IF cenyx = <<>> THEN <<shape[1] - 1, shape[2] - 1>>
              ELSE <<2 * cenyx[1], 2 * cenyx[2]>>
  IN [p \in (0 .. shape[1] - 1) \X (0 .. shape[2] - 1) |->
        (2 * p[1] - cen2[1]) ^ 2 + (2 * p[2] - cen2[2]) ^ 2]

MaxOf(S) == CHOOSE x \in S : \A y \in S : y <= x

\* np.digitize(x, bins) for bins = np.linspace(0, rmax, nbins): the number of
\* edges j * rmax / (nbins - 1), j in 0 .. nbins - 1, that are <= x.  x and
\* rmax are given as 4 times their squares, and j * rmax / (nbins - 1) <= x
\* is compared on the squares.
digitize(x4, rmax4, nbins) ==
  Cardinality({j \in 0 .. nbins - 1 : j * j * rmax4 <= x4 * (nbins - 1) * (nbins - 1)})

\* [np.mean(im[(digrad == i) & mask]) for i in np.unique(digrad)], i from
\* lo upwards: np.unique gives the values that occur, ascending.  A mean is
\* kept as <<sum, count>>; a count of 0 is the mean of nothing (nan).
RECURSIVE ProfileFrom(_, _, _, _, _)
ProfileFrom(im, mask, digrad, lo, hi) ==
  IF lo > hi THEN <<>>
  ELSE LET here == {p \in DOMAIN digrad : digrad[p] = lo}
           sel == {p \in here : mask.v[p]}
           ones == Cardinality({p \in sel : im.v[p] = 1})
       IN (IF here = {} THEN <<>> ELSE << <<ones, Cardinality(sel)>> >>)
            \o ProfileFrom(im, mask, digrad, lo + 1, hi)

get_radial_contrast(im, mask, nbins, cenyx) ==
  LET radial == get_radial_dist(<<im.h, im.w>>, cenyx)
      rmax4 == MaxOf({radial[p] : p \in DOMAIN radial})
      bins == [j \in 1 .. nbins |-> <<j - 1, nbins - 1>>]
      digrad == [p \in DOMAIN radial |-> digitize(radial[p], rmax4, nbins)]
  IN [bins |-> bins,
      digrad |-> digrad,
      profile |-> ProfileFrom(im, mask, digrad, 0, nbins)]

\* A single pixel is left out: it makes all the bin edges coincide at 0.
RadialInputs(maxRows, maxCols, maxBins) ==
  UNION {{[im |-> im, mask |-> m, nbins |-> nb, cenyx |-> c] :
            im \in Images(shape[1], shape[2], {0, 1}),
            m \in Images(shape[1], shape[2], BOOLEAN),
            nb \in 2 .. maxBins,
            c \in {<<>>, <<0, 0>>}} :
         shape \in {hw \in (1 .. maxRows) \X (1 .. maxCols) : hw[1] * hw[2] >= 2}}

InitRadial ==
  /\ pc = "start"
  /\ args \in RadialInputs(MaxRows, MaxCols, MaxBins)
  /\ ret = <<>>

GetRadialContrast ==
  /\ pc = "start"
  /\ pc' = "done"
  /\ ret' = get_radial_contrast(args.im, args.mask, args.nbins, args.cenyx)
  /\ UNCHANGED args

NextRadial == GetRadialContrast

SpecRadial == InitRadial /\ [][NextRadial]_vars

\* C10: for every image shape, mask and nbins >= 2, get_radial_contrast
\* assigns every pixel to one of nbins radial bins and returns one averaged
\* profile value per bin, so the returned bins array and profile array both
\* have length nbins, also when some radial bin contains no pixel.
C10_ProfileLengthIsNbins ==
  (pc = "done") =>
    /\ \A p \in DOMAIN ret.digrad : ret.digrad[p] \in 1 .. args.nbins
    /\ Len(ret.bins) = args.nbins
    /\ Len(ret.profile) = args.nbins
    /\ Len(ret.profile) = Len(ret.bins)

====
